---- MODULE Spec2Model ----
(***************************************************************************)
(* Model of the adaptive questioning controller of src/src/App.tsx: the    *)
(* React component state, the click handlers handleStartProject,           *)
(* handleAnswerSubmit, skipQuestion and finishQuestioning, the daily rate  *)
(* limiter, the input validator and the fallback question source.          *)
(*                                                                         *)
(* Every async handler is split at its single `await`: the part before it  *)
(* is one action, which puts a call record holding the values the closure  *)
(* captured into `inflight`; the part after it is a second action, which   *)
(* takes a record out of `inflight` together with the result of            *)
(* generateNextQuestion and runs the rest of the handler on the captured   *)
(* values.                                                                 *)
(*                                                                         *)
(* Texts are sequences of one-character strings.  Array indices and the    *)
(* keys of the answer map are 0-based as in the source; the TLA+ sequence  *)
(* `questions` holds the element of index i at position i + 1.             *)
(***************************************************************************)
EXTENDS Integers, Sequences, FiniteSets, TLC

VARIABLES
    page,                   \* 'home' | 'questioning' | 'summary'
    projectInput,           \* text of the project description
    questions,              \* Question[]
    currentQuestionIndex,   \* number
    answers,                \* Answers: index -> text
    currentAnswer,          \* draft text of the answer textarea
    isGenerating,           \* start button spinner
    inputError,             \* error message shown on the home page
    isGeneratingQuestion,   \* questioning page spinner
    projectCount,           \* localStorage item 'projectCount'
    today,                  \* calendar day read by new Date().toDateString()
    inflight,               \* generateNextQuestion calls awaiting their result
    apiKey,                 \* import.meta.env.VITE_GEMINI_API_KEY is set
    now,                    \* Date.now()
    lastApiCall,            \* sessionStorage item 'lastApiCall'
    apiCalls,               \* the genAI.models.generateContent invocations made
    returned,               \* what the last generateNextQuestion call returned, and
                            \* whether it had invoked the external service
    evaluated               \* the last application of a pure function of the
                            \* program: its name, its arguments and its value

vars == <<page, projectInput, questions, currentQuestionIndex, answers,
          currentAnswer, isGenerating, inputError, isGeneratingQuestion,
          projectCount, today, inflight,
          apiKey, now, lastApiCall, apiCalls, returned, evaluated>>

\* The state of the oracle client.  Spec and SpecLimiter represent a call of
\* generateNextQuestion by its call record and its outcome and keep the
\* client's own state fixed; SpecClient runs the client itself.
clientVars == <<apiKey, now, lastApiCall, apiCalls, returned>>

(***************************************************************************)
(* Bounds of the model.                                                    *)
(***************************************************************************)
MaxDeviations == 1   \* skipped questions plus fallback questions per session
MaxStarts == 2       \* accepted starts per day
MaxDay == 1          \* calendar days 0..MaxDay
MaxNow == 3000       \* clock readings 0..MaxNow, in milliseconds
MaxReplyLen == 3     \* tokens of an oracle reply
MaxTotal == 10       \* questions of a history given to calculateAnalytics
MaxCount == 12       \* question counts 0..MaxCount given to getFallbackQuestion
MaxWords == 4        \* words of a text given to validateInput
MaxSkipRun == 25     \* skips followed within one session of SpecSkipping

(***************************************************************************)
(* Program constants.                                                      *)
(***************************************************************************)
MaxQuestions == 20        \* previousQA.length < 20
DailyCap == 100           \* count >= 100
MinDescLength == 10       \* text.trim().length < 10
MinMeaningfulWords == 3   \* meaningfulWords.length < 3
MinWordLength == 2        \* cleanWord.length >= 2
FallbackPrefixLen == 50   \* projectDesc.substring(0, 50)
FallbackListLen == 10     \* entries of fallbackQuestions
FarCount == 999           \* a question count far past the end of the list
MinSpacing == 1000        \* now - parseInt(lastCall) < 1000

Min(a, b) == IF a < b THEN a ELSE b

(***************************************************************************)
(* Texts.                                                                  *)
(***************************************************************************)
Whitespace == {" "}
Vowels == {"a", "e"}
Letters == {"a", "e", "b", "c"}

RECURSIVE TrimStart(_)
TrimStart(s) ==
    IF s # <<>> /\ Head(s) \in Whitespace THEN TrimStart(Tail(s)) ELSE s

RECURSIVE TrimEnd(_)
TrimEnd(s) ==
    IF s # <<>> /\ s[Len(s)] \in Whitespace
    THEN TrimEnd(SubSeq(s, 1, Len(s) - 1))
    ELSE s

\* trim() that removes nothing
TrimNothing(s) == s

Trim(s) == TrimEnd(TrimStart(s))

\* text.trim().split(/\s+/)
RECURSIVE SplitWords(_, _, _)
SplitWords(s, cur, acc) ==
    IF s = <<>>
    THEN IF cur = <<>> THEN acc ELSE Append(acc, cur)
    ELSE IF Head(s) \in Whitespace
         THEN SplitWords(Tail(s), <<>>, IF cur = <<>> THEN acc ELSE Append(acc, cur))
         ELSE SplitWords(Tail(s), Append(cur, Head(s)), acc)

Words(text) ==
    IF Trim(text) = <<>> THEN << <<>> >> ELSE SplitWords(Trim(text), <<>>, <<>>)

IsLetter(c) == c \in Letters
IsVowel(c) == c \in Vowels

\* word.replace(/[^a-zA-Z]/g, '')
CleanWord(word) == SelectSeq(word, IsLetter)

IsMeaningful(word) ==
    /\ SelectSeq(CleanWord(word), IsVowel) # <<>>
    /\ Len(CleanWord(word)) >= MinWordLength

ErrTooShort == "Please provide a more detailed project description (at least 10 characters)"
ErrRealWords == "Please describe your project with real words."
ErrLimit == "You have reached your limit of 5 projects per day. Please try again tomorrow!"
ErrNoQuestions == "AI determined no questions needed. Please provide more project details."
NoError == ""

\* validateInput asking for two meaningful words
validateInputTwoWords(text) ==
    IF text = <<>> \/ Len(Trim(text)) < MinDescLength
    THEN [valid |-> FALSE, error |-> ErrTooShort]
    ELSE IF Len(SelectSeq(Words(text), IsMeaningful)) < MinMeaningfulWords - 1
         THEN [valid |-> FALSE, error |-> ErrRealWords]
         ELSE [valid |-> TRUE, error |-> NoError]

validateInput(text) ==
    IF text = <<>> \/ Len(Trim(text)) < MinDescLength
    THEN [valid |-> FALSE, error |-> ErrTooShort]
    ELSE IF Len(SelectSeq(Words(text), IsMeaningful)) < MinMeaningfulWords
         THEN [valid |-> FALSE, error |-> ErrRealWords]
         ELSE [valid |-> TRUE, error |-> NoError]

(***************************************************************************)
(* Rate limiter.  The stored item is absent, a {date, count} record, or a  *)
(* string that JSON.parse cannot parse (JSON.parse then throws).           *)
(***************************************************************************)
NoRecord == [kind |-> "absent", date |-> 0, count |-> 0]
Corrupted == [kind |-> "corrupted", date |-> 0, count |-> 0]
Stored(d, c) == [kind |-> "record", date |-> d, count |-> c]

\* checkRateLimit with count > 100 in place of count >= 100
checkRateLimitOffByOne(stored, day) ==
    IF stored.kind = "absent"
    THEN [threw |-> FALSE, allowed |-> TRUE, stored |-> Stored(day, 1)]
    ELSE IF stored.kind = "corrupted"
    THEN [threw |-> TRUE, allowed |-> FALSE, stored |-> stored]
    ELSE IF stored.date = day
         THEN IF stored.count > DailyCap
              THEN [threw |-> FALSE, allowed |-> FALSE, stored |-> stored]
              ELSE [threw |-> FALSE, allowed |-> TRUE,
                    stored |-> Stored(day, stored.count + 1)]
         ELSE [threw |-> FALSE, allowed |-> TRUE, stored |-> Stored(day, 1)]

\* checkRateLimit writing the record before it looks at the count
checkRateLimitCountsDenied(stored, day) ==
    IF stored.kind = "absent"
    THEN [threw |-> FALSE, allowed |-> TRUE, stored |-> Stored(day, 1)]
    ELSE IF stored.kind = "corrupted"
    THEN [threw |-> TRUE, allowed |-> FALSE, stored |-> stored]
    ELSE IF stored.date = day
         THEN [threw |-> FALSE, allowed |-> stored.count < DailyCap,
               stored |-> Stored(day, stored.count + 1)]
         ELSE [threw |-> FALSE, allowed |-> TRUE, stored |-> Stored(day, 1)]

checkRateLimit(stored, day) ==
    IF stored.kind = "absent"
    THEN [threw |-> FALSE, allowed |-> TRUE, stored |-> Stored(day, 1)]
    ELSE IF stored.kind = "corrupted"
    THEN [threw |-> TRUE, allowed |-> FALSE, stored |-> stored]
    ELSE IF stored.date = day
         THEN IF stored.count >= DailyCap
              THEN [threw |-> FALSE, allowed |-> FALSE, stored |-> stored]
              ELSE [threw |-> FALSE, allowed |-> TRUE,
                    stored |-> Stored(day, stored.count + 1)]
         ELSE [threw |-> FALSE, allowed |-> TRUE, stored |-> Stored(day, 1)]

(***************************************************************************)
(* Questions.                                                              *)
(***************************************************************************)
Question(id, category, text, icon, type) ==
    [id |-> id, category |-> category, question |-> text, icon |-> icon, type |-> type]

\* {} as Question
EmptyQuestion == Question(0, "", <<>>, "", "")

\* the fields the oracle's reply supplies for a continue decision
OracleData == [category |-> "Budget", question |-> <<"oracle question">>,
               icon |-> "$", type |-> "standard"]

fallbackQuestions(projectDesc) == <<
    Question(1, "Project Vision",
             <<"What specific problem does">>
                 \o SubSeq(projectDesc, 1, Min(FallbackPrefixLen, Len(projectDesc)))
                 \o <<"... solve?">>,
             "vision", "standard"),
    Question(2, "Target Audience", <<"Who exactly will use this?">>, "audience", "standard"),
    Question(3, "Timeline", <<"When do you need this completed?">>, "calendar", "standard"),
    Question(4, "Budget", <<"What is your total budget?">>, "money", "standard"),
    Question(5, "Success Metrics", <<"How will you measure success?">>, "chart", "standard"),
    Question(6, "Key Features", <<"What are the must-have features?">>, "bolt", "standard"),
    Question(7, "Resources", <<"What resources do you currently have?">>, "tools", "standard"),
    Question(8, "Dependencies", <<"Does this project depend on others?">>, "link", "standard"),
    Question(9, "Risks", <<"What are the top 3 risks?">>, "warning", "outside-box"),
    Question(10, "Stakeholders", <<"Who needs to approve decisions?">>, "tie", "standard") >>

\* getFallbackQuestion indexing its list modulo the list's length
getFallbackQuestionWrapping(projectDesc, questionCount) ==
    fallbackQuestions(projectDesc)[
        (questionCount % Len(fallbackQuestions(projectDesc))) + 1]

getFallbackQuestion(projectDesc, questionCount) ==
    fallbackQuestions(projectDesc)[
        Min(questionCount, Len(fallbackQuestions(projectDesc)) - 1) + 1]

\* the questions of a history that came from the fallback list
FallbackCount(qs) ==
    Cardinality({i \in 1..Len(qs) : qs[i].question # OracleData.question})

(***************************************************************************)
(* Oracle client.  A result is null, a stop decision or a continue         *)
(* decision carrying a question numbered previousQA.length + 1.  An        *)
(* outcome names what the call produced: one of the three reply shapes     *)
(* (continue, stop, and a rejection of kind task or gibberish), or nothing *)
(* usable (null).                                                          *)
(***************************************************************************)
Outcomes == {"continue", "stop", "task", "gibberish", "null"}

MsgTask == "This seems like a simple task rather than a project."
MsgGibberish == "This seems like a gibberish input rather than a project."

\* the object parsed from the reply: const data = JSON.parse(jsonMatch[0])
ReplyData(outcome) ==
    IF outcome = "continue"
    THEN [shouldContinue |-> TRUE, isValid |-> TRUE, validationMessage |-> ""]
    ELSE IF outcome = "task"
    THEN [shouldContinue |-> FALSE, isValid |-> FALSE, validationMessage |-> MsgTask]
    ELSE IF outcome = "gibberish"
    THEN [shouldContinue |-> FALSE, isValid |-> FALSE, validationMessage |-> MsgGibberish]
    ELSE [shouldContinue |-> FALSE, isValid |-> TRUE, validationMessage |-> ""]

NullResult == [isNull |-> TRUE, shouldContinue |-> FALSE, question |-> EmptyQuestion]

\* generateNextQuestion without its `if (!data.shouldContinue)` branch
generateNextQuestionNoStop(previousQA, outcome) ==
    IF outcome = "null"
    THEN NullResult
    ELSE [isNull |-> FALSE, shouldContinue |-> TRUE,
          question |-> Question(Len(previousQA) + 1, OracleData.category,
                                OracleData.question, OracleData.icon, OracleData.type)]

generateNextQuestion(previousQA, outcome) ==
    IF outcome = "null"
    THEN NullResult
    ELSE IF ~ReplyData(outcome).shouldContinue
    THEN [isNull |-> FALSE, shouldContinue |-> FALSE, question |-> EmptyQuestion]
    ELSE [isNull |-> FALSE, shouldContinue |-> TRUE,
          question |-> Question(Len(previousQA) + 1, OracleData.category,
                                OracleData.question, OracleData.icon, OracleData.type)]

(***************************************************************************)
(* Inputs.                                                                 *)
(***************************************************************************)
Word == <<"a", "b">>
Sp == <<" ">>
DescEmpty == <<>>
DescShort == Word \o Sp \o Word
DescValid == Word \o Sp \o Word \o Sp \o Word \o Sp \o Word
Descriptions == {DescEmpty, DescShort, DescValid}

Drafts == {<<>>, <<" ">>, <<"a">>}

\* sessionStorage.getItem('lastApiCall') returning null
NoCall == -1

(***************************************************************************)
(* State after construction: the useState initial values, an empty         *)
(* localStorage and no call in flight.                                     *)
(***************************************************************************)
Init ==
    /\ page = "home"
    /\ projectInput = <<>>
    /\ questions = <<>>
    /\ currentQuestionIndex = 0
    /\ answers = <<>>
    /\ currentAnswer = <<>>
    /\ isGenerating = FALSE
    /\ inputError = NoError
    /\ isGeneratingQuestion = FALSE
    /\ projectCount = NoRecord
    /\ today = 0
    /\ inflight = <<>>
    /\ apiKey = TRUE
    /\ now = 0
    /\ lastApiCall = NoCall
    /\ apiCalls = <<>>
    /\ returned = <<>>
    /\ evaluated = <<>>

(***************************************************************************)
(* What the rendered page lets the user do.                                *)
(***************************************************************************)
\* disabled={!projectInput.trim() || isGenerating || !!inputError}
StartButtonEnabled ==
    /\ page = "home"
    /\ Trim(projectInput) # <<>>
    /\ ~isGenerating
    /\ inputError = NoError

\* the question card rendered whether or not a question is being generated
QuestionCardAlwaysShown == page = "questioning"

\* {isGeneratingQuestion ? spinner : question card with the three buttons}
QuestionCardShown ==
    /\ page = "questioning"
    /\ ~isGeneratingQuestion

Call(kind, previousQA) ==
    [kind |-> kind,
     projectInput |-> projectInput,
     questions |-> questions,
     currentQuestionIndex |-> currentQuestionIndex,
     previousQA |-> previousQA]

RemoveAt(s, i) == SubSeq(s, 1, i - 1) \o SubSeq(s, i + 1, Len(s))

\* answers[idx] || ''
AnswerOr(ans, idx) == IF idx \in DOMAIN ans THEN ans[idx] ELSE <<>>

\* questions.slice(0, n).map(...).filter(qa => qa.answer)
PreviousQA(qs, n, answerAt) ==
    LET slice == SubSeq(qs, 1, Min(n, Len(qs)))
        mapped == [i \in 1..Len(slice) |->
                      [question |-> slice[i].question, answer |-> answerAt[i - 1]]]
        HasAnswer(qa) == qa.answer # <<>>
    IN SelectSeq(mapped, HasAnswer)

\* previousQA.length < 20, with <= in place of <
BelowMaxQuestionsInclusive(previousQA) == Len(previousQA) <= MaxQuestions

\* if (previousQA.length < 20)
BelowMaxQuestions(previousQA) == Len(previousQA) < MaxQuestions

\* handleAnswerSubmit: questions.slice(0, currentQuestionIndex + 1), the current
\* position taking currentAnswer
submitPreviousQA ==
    LET answerAt == [idx \in 0..currentQuestionIndex |->
                        IF idx = currentQuestionIndex THEN currentAnswer
                        ELSE AnswerOr(answers, idx)]
    IN PreviousQA(questions, currentQuestionIndex + 1, answerAt)

\* skipQuestion building its history the way handleAnswerSubmit does
skipPreviousQAWithCurrent == submitPreviousQA

\* skipQuestion: questions.slice(0, currentQuestionIndex)
skipPreviousQA ==
    LET answerAt == [idx \in 0..(currentQuestionIndex - 1) |-> AnswerOr(answers, idx)]
    IN PreviousQA(questions, currentQuestionIndex, answerAt)

(***************************************************************************)
(* Home page.                                                              *)
(***************************************************************************)
handleInputChange(value) ==
    /\ UNCHANGED clientVars
    /\ UNCHANGED evaluated
    /\ page = "home"
    /\ projectInput' = value
    /\ inputError' = IF inputError # NoError /\ Len(value) > 0 THEN NoError ELSE inputError
    /\ UNCHANGED <<page, questions, currentQuestionIndex, answers, currentAnswer,
                   isGenerating, isGeneratingQuestion, projectCount, today, inflight>>

\* handleStartProject calling checkRateLimit before validateInput
handleStartProjectLimitFirst ==
    /\ UNCHANGED clientVars
    /\ UNCHANGED evaluated
    /\ StartButtonEnabled
    /\ LET validation == validateInput(projectInput)
           limit == checkRateLimit(projectCount, today)
       IN IF limit.threw
          THEN UNCHANGED <<inputError, isGenerating, projectCount, inflight>>
          ELSE IF ~limit.allowed
          THEN /\ inputError' = ErrLimit
               /\ projectCount' = limit.stored
               /\ UNCHANGED <<isGenerating, inflight>>
          ELSE IF ~validation.valid
          THEN /\ inputError' = validation.error
               /\ projectCount' = limit.stored
               /\ UNCHANGED <<isGenerating, inflight>>
          ELSE /\ projectCount' = limit.stored
               /\ isGenerating' = TRUE
               /\ inputError' = NoError
               /\ inflight' = Append(inflight, Call("start", <<>>))
    /\ UNCHANGED <<page, projectInput, questions, currentQuestionIndex, answers,
                   currentAnswer, isGeneratingQuestion, today>>

handleStartProject ==
    /\ UNCHANGED clientVars
    /\ UNCHANGED evaluated
    /\ StartButtonEnabled
    /\ LET validation == validateInput(projectInput)
           limit == checkRateLimit(projectCount, today)
       IN IF ~validation.valid
          THEN /\ inputError' = validation.error
               /\ UNCHANGED <<isGenerating, projectCount, inflight>>
          ELSE IF limit.threw
          THEN UNCHANGED <<inputError, isGenerating, projectCount, inflight>>
          ELSE IF ~limit.allowed
          THEN /\ inputError' = ErrLimit
               /\ projectCount' = limit.stored
               /\ UNCHANGED <<isGenerating, inflight>>
          ELSE /\ projectCount' = limit.stored
               /\ isGenerating' = TRUE
               /\ inputError' = NoError
               /\ inflight' = Append(inflight, Call("start", <<>>))
    /\ UNCHANGED <<page, projectInput, questions, currentQuestionIndex, answers,
                   currentAnswer, isGeneratingQuestion, today>>

\* handleStartProject after `await generateNextQuestion(projectInput, [])`
startResult(i, outcome) ==
    /\ UNCHANGED clientVars
    /\ UNCHANGED evaluated
    /\ i \in 1..Len(inflight)
    /\ inflight[i].kind = "start"
    /\ LET call == inflight[i]
           result == generateNextQuestion(call.previousQA, outcome)
       IN IF ~result.isNull /\ result.shouldContinue
          THEN /\ questions' = <<result.question>>
               /\ page' = "questioning"
               /\ currentQuestionIndex' = 0
               /\ UNCHANGED inputError
          ELSE IF ~result.isNull /\ ~result.shouldContinue
          THEN /\ inputError' = ErrNoQuestions
               /\ UNCHANGED <<questions, page, currentQuestionIndex>>
          ELSE /\ questions' = <<getFallbackQuestion(call.projectInput, 0)>>
               /\ page' = "questioning"
               /\ currentQuestionIndex' = 0
               /\ UNCHANGED inputError
    /\ isGenerating' = FALSE
    /\ inflight' = RemoveAt(inflight, i)
    /\ UNCHANGED <<projectInput, answers, currentAnswer, isGeneratingQuestion,
                   projectCount, today>>

(***************************************************************************)
(* Questioning page.                                                       *)
(***************************************************************************)
setCurrentAnswer(value) ==
    /\ UNCHANGED clientVars
    /\ UNCHANGED evaluated
    /\ QuestionCardShown
    /\ currentAnswer' = value
    /\ UNCHANGED <<page, projectInput, questions, currentQuestionIndex, answers,
                   isGenerating, inputError, isGeneratingQuestion, projectCount,
                   today, inflight>>

handleAnswerSubmit ==
    /\ UNCHANGED clientVars
    /\ UNCHANGED evaluated
    /\ QuestionCardShown
    /\ IF Trim(currentAnswer) = <<>>
       THEN UNCHANGED vars
       ELSE LET newAnswers == [k \in DOMAIN answers \cup {currentQuestionIndex} |->
                                  IF k = currentQuestionIndex THEN currentAnswer
                                  ELSE answers[k]]
                previousQA == submitPreviousQA
            IN /\ answers' = newAnswers
               /\ currentAnswer' = <<>>
               /\ IF BelowMaxQuestions(previousQA)
                  THEN /\ isGeneratingQuestion' = TRUE
                       /\ inflight' = Append(inflight, Call("submit", previousQA))
                       /\ UNCHANGED page
                  ELSE /\ page' = "summary"
                       /\ isGeneratingQuestion' = FALSE
                       /\ UNCHANGED inflight
               /\ UNCHANGED <<projectInput, questions, currentQuestionIndex,
                              isGenerating, inputError, projectCount, today>>

\* handleAnswerSubmit after its await, without setIsGeneratingQuestion(false)
submitResultKeepsSpinner(i, outcome) ==
    /\ UNCHANGED clientVars
    /\ UNCHANGED evaluated
    /\ i \in 1..Len(inflight)
    /\ inflight[i].kind = "submit"
    /\ LET call == inflight[i]
           result == generateNextQuestion(call.previousQA, outcome)
       IN IF ~result.isNull /\ result.shouldContinue
          THEN /\ questions' = Append(call.questions, result.question)
               /\ currentQuestionIndex' = call.currentQuestionIndex + 1
               /\ UNCHANGED page
          ELSE IF ~result.isNull /\ ~result.shouldContinue
          THEN /\ page' = "summary"
               /\ UNCHANGED <<questions, currentQuestionIndex>>
          ELSE /\ questions' = Append(call.questions,
                       getFallbackQuestion(call.projectInput, Len(call.previousQA)))
               /\ currentQuestionIndex' = call.currentQuestionIndex + 1
               /\ UNCHANGED page
    /\ UNCHANGED isGeneratingQuestion
    /\ inflight' = RemoveAt(inflight, i)
    /\ UNCHANGED <<projectInput, answers, currentAnswer, isGenerating, inputError,
                   projectCount, today>>

\* handleAnswerSubmit after its await, without setCurrentQuestionIndex on a
\* continue decision
submitResultKeepsIndex(i, outcome) ==
    /\ UNCHANGED clientVars
    /\ UNCHANGED evaluated
    /\ i \in 1..Len(inflight)
    /\ inflight[i].kind = "submit"
    /\ LET call == inflight[i]
           result == generateNextQuestion(call.previousQA, outcome)
       IN IF ~result.isNull /\ result.shouldContinue
          THEN /\ questions' = Append(call.questions, result.question)
               /\ currentQuestionIndex' = call.currentQuestionIndex
               /\ UNCHANGED page
          ELSE IF ~result.isNull /\ ~result.shouldContinue
          THEN /\ page' = "summary"
               /\ UNCHANGED <<questions, currentQuestionIndex>>
          ELSE /\ questions' = Append(call.questions,
                       getFallbackQuestion(call.projectInput, Len(call.previousQA)))
               /\ currentQuestionIndex' = call.currentQuestionIndex + 1
               /\ UNCHANGED page
    /\ isGeneratingQuestion' = FALSE
    /\ inflight' = RemoveAt(inflight, i)
    /\ UNCHANGED <<projectInput, answers, currentAnswer, isGenerating, inputError,
                   projectCount, today>>

\* handleAnswerSubmit after `await generateNextQuestion(projectInput, previousQA)`
submitResult(i, outcome) ==
    /\ UNCHANGED clientVars
    /\ UNCHANGED evaluated
    /\ i \in 1..Len(inflight)
    /\ inflight[i].kind = "submit"
    /\ LET call == inflight[i]
           result == generateNextQuestion(call.previousQA, outcome)
       IN IF ~result.isNull /\ result.shouldContinue
          THEN /\ questions' = Append(call.questions, result.question)
               /\ currentQuestionIndex' = call.currentQuestionIndex + 1
               /\ UNCHANGED page
          ELSE IF ~result.isNull /\ ~result.shouldContinue
          THEN /\ page' = "summary"
               /\ UNCHANGED <<questions, currentQuestionIndex>>
          ELSE /\ questions' = Append(call.questions,
                       getFallbackQuestion(call.projectInput, Len(call.previousQA)))
               /\ currentQuestionIndex' = call.currentQuestionIndex + 1
               /\ UNCHANGED page
    /\ isGeneratingQuestion' = FALSE
    /\ inflight' = RemoveAt(inflight, i)
    /\ UNCHANGED <<projectInput, answers, currentAnswer, isGenerating, inputError,
                   projectCount, today>>

skipQuestion ==
    /\ UNCHANGED clientVars
    /\ UNCHANGED evaluated
    /\ QuestionCardShown
    /\ LET previousQA == skipPreviousQA
       IN /\ currentAnswer' = <<>>
          /\ IF BelowMaxQuestions(previousQA)
             THEN /\ isGeneratingQuestion' = TRUE
                  /\ inflight' = Append(inflight, Call("skip", previousQA))
                  /\ UNCHANGED page
             ELSE /\ page' = "summary"
                  /\ isGeneratingQuestion' = FALSE
                  /\ UNCHANGED inflight
    /\ UNCHANGED <<projectInput, questions, currentQuestionIndex, answers,
                   isGenerating, inputError, projectCount, today>>

\* skipQuestion after `await generateNextQuestion(projectInput, previousQA)`
skipResult(i, outcome) ==
    /\ UNCHANGED clientVars
    /\ UNCHANGED evaluated
    /\ i \in 1..Len(inflight)
    /\ inflight[i].kind = "skip"
    /\ LET call == inflight[i]
           result == generateNextQuestion(call.previousQA, outcome)
       IN IF ~result.isNull /\ result.shouldContinue
          THEN /\ questions' = Append(call.questions, result.question)
               /\ currentQuestionIndex' = call.currentQuestionIndex + 1
               /\ UNCHANGED page
          ELSE /\ page' = "summary"
               /\ UNCHANGED <<questions, currentQuestionIndex>>
    /\ isGeneratingQuestion' = FALSE
    /\ inflight' = RemoveAt(inflight, i)
    /\ UNCHANGED <<projectInput, answers, currentAnswer, isGenerating, inputError,
                   projectCount, today>>

\* finishQuestioning leaving for the home page when nothing was answered
finishQuestioningUnanswered ==
    /\ UNCHANGED clientVars
    /\ UNCHANGED evaluated
    /\ QuestionCardShown
    /\ page' = IF answers = <<>> THEN "home" ELSE "summary"
    /\ UNCHANGED <<projectInput, questions, currentQuestionIndex, answers,
                   currentAnswer, isGenerating, inputError, isGeneratingQuestion,
                   projectCount, today, inflight>>

finishQuestioning ==
    /\ UNCHANGED clientVars
    /\ UNCHANGED evaluated
    /\ QuestionCardShown
    /\ page' = "summary"
    /\ UNCHANGED <<projectInput, questions, currentQuestionIndex, answers,
                   currentAnswer, isGenerating, inputError, isGeneratingQuestion,
                   projectCount, today, inflight>>

(***************************************************************************)
(* Summary page: the Start New Project button.                             *)
(***************************************************************************)
\* the Start New Project handler without its setAnswers({})
startNewProjectKeepsAnswers ==
    /\ UNCHANGED clientVars
    /\ UNCHANGED evaluated
    /\ page = "summary"
    /\ page' = "home"
    /\ projectInput' = <<>>
    /\ currentQuestionIndex' = 0
    /\ questions' = <<>>
    /\ UNCHANGED <<answers, currentAnswer, isGenerating, inputError,
                   isGeneratingQuestion, projectCount, today, inflight>>

startNewProject ==
    /\ UNCHANGED clientVars
    /\ UNCHANGED evaluated
    /\ page = "summary"
    /\ page' = "home"
    /\ projectInput' = <<>>
    /\ answers' = <<>>
    /\ currentQuestionIndex' = 0
    /\ questions' = <<>>
    /\ UNCHANGED <<currentAnswer, isGenerating, inputError, isGeneratingQuestion,
                   projectCount, today, inflight>>

(***************************************************************************)
(* The specification.  The bounds limit the user's skips and the oracle's  *)
(* unusable replies in one session, and the starts of one day.             *)
(***************************************************************************)
StartsToday ==
    IF projectCount.kind = "record" /\ projectCount.date = today
    THEN projectCount.count ELSE 0

SkippedCount ==
    Cardinality({k \in 0..(currentQuestionIndex - 1) : k \notin DOMAIN answers})

Deviations == SkippedCount + FallbackCount(questions)

WithinBounds(i, outcome) ==
    outcome = "null" /\ inflight[i].kind # "skip" => Deviations < MaxDeviations

TypeDescription == \E value \in Descriptions : handleInputChange(value)
Start == StartsToday < MaxStarts /\ handleStartProject
TypeAnswer == \E value \in Drafts : setCurrentAnswer(value)
Submit == handleAnswerSubmit
Skip == Deviations < MaxDeviations /\ skipQuestion
Finish == finishQuestioning
Reset == startNewProject
StartReply ==
    \E i \in 1..Len(inflight), outcome \in Outcomes :
        WithinBounds(i, outcome) /\ startResult(i, outcome)
SubmitReply ==
    \E i \in 1..Len(inflight), outcome \in Outcomes :
        WithinBounds(i, outcome) /\ submitResult(i, outcome)
SkipReply ==
    \E i \in 1..Len(inflight), outcome \in Outcomes :
        WithinBounds(i, outcome) /\ skipResult(i, outcome)

Next ==
    \/ TypeDescription
    \/ Start
    \/ StartReply
    \/ TypeAnswer
    \/ Submit
    \/ SubmitReply
    \/ Skip
    \/ SkipReply
    \/ Finish
    \/ Reset

Spec == Init /\ [][Next]_vars

(***************************************************************************)
(* The rate limiter over calendar days.  The page is loaded with any       *)
(* stored item an earlier visit (or another script of the origin) can have *)
(* left; the day changes; the user starts, finishes and resets sessions.   *)
(***************************************************************************)
StoredItems ==
    {NoRecord, Corrupted, Stored(0, 1), Stored(0, DailyCap - 1), Stored(0, DailyCap)}

InitLimiter ==
    /\ page = "home"
    /\ projectInput = <<>>
    /\ questions = <<>>
    /\ currentQuestionIndex = 0
    /\ answers = <<>>
    /\ currentAnswer = <<>>
    /\ isGenerating = FALSE
    /\ inputError = NoError
    /\ isGeneratingQuestion = FALSE
    /\ projectCount \in StoredItems
    /\ today = 0
    /\ inflight = <<>>
    /\ apiKey = TRUE
    /\ now = 0
    /\ lastApiCall = NoCall
    /\ apiCalls = <<>>
    /\ returned = <<>>
    /\ evaluated = <<>>

\* midnight passes: new Date().toDateString() changes
NextDay ==
    /\ UNCHANGED clientVars
    /\ UNCHANGED evaluated
    /\ today < MaxDay
    /\ today' = today + 1
    /\ UNCHANGED <<page, projectInput, questions, currentQuestionIndex, answers,
                   currentAnswer, isGenerating, inputError, isGeneratingQuestion,
                   projectCount, inflight>>

StartUnbounded == handleStartProject

NextLimiter ==
    \/ TypeDescription
    \/ StartUnbounded
    \/ StartReply
    \/ NextDay
    \/ Finish
    \/ Reset

SpecLimiter == InitLimiter /\ [][NextLimiter]_vars

(***************************************************************************)
(* The oracle client on its own: getApiKey, the external invocation and    *)
(* the handling of its reply, under a clock.  A reply text is a sequence   *)
(* of tokens: the two braces, a piece of prose "t", and the member lists   *)
(* of the four replies the prompt asks for.                                *)
(***************************************************************************)
ReplyBodies == {"continue", "stop", "task", "gibberish"}
ReplyTokens == {"{", "}", "t"} \cup ReplyBodies

\* replies holding two brace-delimited objects: a well-formed one, prose,
\* and a second fragment
MultiObjectReplies ==
    {<<"{", first, "}", "t", "{", second, "}">> :
        first \in ReplyBodies, second \in ReplyBodies \cup {"t"}}

Replies == UNION {[1..n -> ReplyTokens] : n \in 0..MaxReplyLen} \cup MultiObjectReplies

\* what `await genAI.models.generateContent(...)` does: throw, or give a text
Responses ==
    {[threw |-> TRUE, text |-> <<>>]} \cup {[threw |-> FALSE, text |-> r] : r \in Replies}

RECURSIVE DropToOpen(_)
DropToOpen(text) ==
    IF text = <<>> \/ Head(text) = "{" THEN text ELSE DropToOpen(Tail(text))

RECURSIVE DropToClose(_)
DropToClose(text) ==
    IF text = <<>> \/ text[Len(text)] = "}"
    THEN text
    ELSE DropToClose(SubSeq(text, 1, Len(text) - 1))

\* text.match(/\{[\s\S]*\}/): from the first "{" to the last "}" after it;
\* <<>> stands for no match
jsonMatch(text) == DropToClose(DropToOpen(text))

\* JSON.parse(jsonMatch[0]) returns (an object) rather than throwing
Parses(json) ==
    \/ json = <<"{", "}">>
    \/ Len(json) = 3 /\ json[1] = "{" /\ json[2] \in ReplyBodies /\ json[3] = "}"

\* the outcome of generateNextQuestion's code after the await; the empty
\* object has no shouldContinue member and so reads as a stop
replyOutcome(response) ==
    IF response.threw \/ jsonMatch(response.text) = <<>>
    THEN "null"
    ELSE IF ~Parses(jsonMatch(response.text))
    THEN "null"
    ELSE IF Len(jsonMatch(response.text)) = 3
    THEN jsonMatch(response.text)[2]
    ELSE "stop"

\* getApiKey that never writes the 'lastApiCall' item
getApiKeyNoStamp(key, lastCall, t) ==
    IF ~key
    THEN [threw |-> TRUE, lastApiCall |-> lastCall]
    ELSE IF lastCall # NoCall /\ t - lastCall < MinSpacing
    THEN [threw |-> TRUE, lastApiCall |-> lastCall]
    ELSE [threw |-> FALSE, lastApiCall |-> lastCall]

getApiKey(key, lastCall, t) ==
    IF ~key
    THEN [threw |-> TRUE, lastApiCall |-> lastCall]
    ELSE IF lastCall # NoCall /\ t - lastCall < MinSpacing
    THEN [threw |-> TRUE, lastApiCall |-> lastCall]
    ELSE [threw |-> FALSE, lastApiCall |-> t]

controllerVars == <<page, projectInput, questions, currentQuestionIndex, answers,
                    currentAnswer, isGenerating, inputError, isGeneratingQuestion,
                    projectCount, today, inflight>>

PendingCalls == {k \in 1..Len(apiCalls) : apiCalls[k].pending}

\* generateNextQuestion up to its await: getApiKey throws and the catch
\* returns null, or the external invocation is made
clientCall(previousQA) ==
    /\ PendingCalls = {}
    /\ lastApiCall' = getApiKey(apiKey, lastApiCall, now).lastApiCall
    /\ IF getApiKey(apiKey, lastApiCall, now).threw
       THEN /\ returned' = <<[invoked |-> FALSE, result |-> NullResult]>>
            /\ UNCHANGED apiCalls
       ELSE /\ apiCalls' = Append(apiCalls, [at |-> now, previousQA |-> previousQA,
                                             pending |-> TRUE])
            /\ returned' = <<>>
    /\ UNCHANGED <<apiKey, now>>
    /\ UNCHANGED controllerVars
    /\ UNCHANGED evaluated

\* generateNextQuestion from its await on
clientReply(k, response) ==
    /\ k \in PendingCalls
    /\ apiCalls' = [apiCalls EXCEPT ![k].pending = FALSE]
    /\ returned' = <<[invoked |-> TRUE,
                       result |-> generateNextQuestion(apiCalls[k].previousQA,
                                                       replyOutcome(response))]>>
    /\ UNCHANGED <<apiKey, now, lastApiCall>>
    /\ UNCHANGED controllerVars
    /\ UNCHANGED evaluated

\* time passing
Tick(d) ==
    /\ now + d <= MaxNow
    /\ now' = now + d
    /\ UNCHANGED <<apiKey, lastApiCall, apiCalls, returned>>
    /\ UNCHANGED controllerVars
    /\ UNCHANGED evaluated

ClientHistories == {<<>>, <<[question |-> OracleData.question, answer |-> <<"a">>]>>}
ClockSteps == {MinSpacing - 1, MinSpacing}

InitClient ==
    /\ page = "home"
    /\ projectInput = <<>>
    /\ questions = <<>>
    /\ currentQuestionIndex = 0
    /\ answers = <<>>
    /\ currentAnswer = <<>>
    /\ isGenerating = FALSE
    /\ inputError = NoError
    /\ isGeneratingQuestion = FALSE
    /\ projectCount = NoRecord
    /\ today = 0
    /\ inflight = <<>>
    /\ apiKey \in BOOLEAN
    /\ now = 0
    /\ lastApiCall = NoCall
    /\ apiCalls = <<>>
    /\ returned = <<>>
    /\ evaluated = <<>>

ClientCall == \E previousQA \in ClientHistories : clientCall(previousQA)
ClientReply == \E k \in PendingCalls : \E response \in Responses : clientReply(k, response)
ClockTick == \E d \in ClockSteps : Tick(d)

NextClient ==
    \/ ClientCall
    \/ ClientReply
    \/ ClockTick

SpecClient == InitClient /\ [][NextClient]_vars

(***************************************************************************)
(* Spec with every generateNextQuestion call completing: the promise the   *)
(* handlers await settles, by a reply or by the catch returning null.      *)
(***************************************************************************)
SpecFair == Spec /\ WF_vars(StartReply \/ SubmitReply \/ SkipReply)

(***************************************************************************)
(* One session with an oracle that always continues and a user who skips   *)
(* every question and never presses finish.  Every call completes, and the *)
(* user skips again whenever a question is shown.  The code puts no limit  *)
(* on skips; the model follows MaxSkipRun of them, past the maximum        *)
(* question count.                                                         *)
(***************************************************************************)
StartContinues == \E i \in 1..Len(inflight) : startResult(i, "continue")
SkipContinues == \E i \in 1..Len(inflight) : skipResult(i, "continue")
SkipAgain == SkippedCount < MaxSkipRun /\ skipQuestion

NextSkipping ==
    \/ TypeDescription
    \/ StartUnbounded
    \/ StartContinues
    \/ TypeAnswer
    \/ SkipAgain
    \/ SkipContinues

SpecSkipping ==
    /\ Init
    /\ [][NextSkipping]_vars
    /\ WF_vars(StartContinues \/ SkipContinues)
    /\ WF_vars(SkipAgain)

(***************************************************************************)
(* The pure functions of the program, applied to arguments drawn from      *)
(* bounded sets.                                                           *)
(***************************************************************************)
\* category.toLowerCase().includes('budget') and ...includes('timeline'),
\* for the categories the model's questions carry
BudgetCategories == {"Budget"}
TimelineCategories == {"Timeline"}

\* Math.round((answeredCount / totalQuestions) * 100): the nearest integer,
\* a half rounded up.  The double arithmetic of the code gives this value
\* for every totalQuestions when answeredCount is at most 21.
RoundedPercent(answeredCount, totalQuestions) ==
    (200 * answeredCount + totalQuestions) \div (2 * totalQuestions)

\* the answered positions that name a question of the history
AnsweredQuestions(qs, ans) == {idx \in DOMAIN ans : idx + 1 \in DOMAIN qs}

\* calculateAnalytics with Math.floor in place of Math.round
calculateAnalyticsTruncating(qs, ans) ==
    LET answeredCount == Cardinality(DOMAIN ans)
        totalQuestions == Len(qs)
        completeness == IF totalQuestions > 0
                        THEN (100 * answeredCount) \div totalQuestions
                        ELSE 0
    IN  [answeredCount |-> answeredCount,
         totalQuestions |-> totalQuestions,
         completeness |-> completeness,
         scopeRiskScore |-> IF completeness < 60 THEN "High"
                            ELSE IF completeness < 80 THEN "Medium"
                            ELSE "Low",
         hasBudgetInfo |-> \E idx \in AnsweredQuestions(qs, ans) :
                               qs[idx + 1].category \in BudgetCategories,
         hasTimelineInfo |-> \E idx \in AnsweredQuestions(qs, ans) :
                                 qs[idx + 1].category \in TimelineCategories,
         outsideBoxAnswered |-> Cardinality({idx \in AnsweredQuestions(qs, ans) :
                                                 qs[idx + 1].type = "outside-box"})]

calculateAnalytics(qs, ans) ==
    LET answeredCount == Cardinality(DOMAIN ans)
        totalQuestions == Len(qs)
        completeness == IF totalQuestions > 0
                        THEN RoundedPercent(answeredCount, totalQuestions)
                        ELSE 0
    IN  [answeredCount |-> answeredCount,
         totalQuestions |-> totalQuestions,
         completeness |-> completeness,
         scopeRiskScore |-> IF completeness < 60 THEN "High"
                            ELSE IF completeness < 80 THEN "Medium"
                            ELSE "Low",
         hasBudgetInfo |-> \E idx \in AnsweredQuestions(qs, ans) :
                               qs[idx + 1].category \in BudgetCategories,
         hasTimelineInfo |-> \E idx \in AnsweredQuestions(qs, ans) :
                                 qs[idx + 1].category \in TimelineCategories,
         outsideBoxAnswered |-> Cardinality({idx \in AnsweredQuestions(qs, ans) :
                                                 qs[idx + 1].type = "outside-box"})]

\* a history of n questions and the answer maps over its positions
HistoryOf(n) == [i \in 1..n |-> getFallbackQuestion(DescValid, i - 1)]
AnswerMaps(n) == {[idx \in S |-> <<"a">>] : S \in SUBSET (0..(n - 1))}

\* the summary page computing its analytics
Summarize(qs, ans) ==
    /\ evaluated = <<>>
    /\ evaluated' = <<[fn |-> "calculateAnalytics", questions |-> qs, answers |-> ans,
                       value |-> calculateAnalytics(qs, ans)]>>
    /\ UNCHANGED controllerVars
    /\ UNCHANGED clientVars

\* a call of getFallbackQuestion
Fallback(projectDesc, questionCount) ==
    /\ evaluated = <<>>
    /\ evaluated' = <<[fn |-> "getFallbackQuestion", projectDesc |-> projectDesc,
                       questionCount |-> questionCount,
                       value |-> getFallbackQuestion(projectDesc, questionCount)]>>
    /\ UNCHANGED controllerVars
    /\ UNCHANGED clientVars

QuestionCounts == 0..MaxCount \cup {FarCount}

ApplyFallback ==
    \E projectDesc \in Descriptions : \E questionCount \in QuestionCounts :
        Fallback(projectDesc, questionCount)

\* the words texts are made of: a meaningful word, a single letter, a word
\* without a vowel, a meaningful word around a digit, a digit and a vowel
WordKinds == {<<"a", "b">>, <<"b">>, <<"b", "c">>, <<"a", "1", "b">>, <<"1", "a">>}
Paddings == {<<>>, <<" ">>}

RECURSIVE JoinWords(_)
JoinWords(ws) ==
    IF ws = <<>> THEN <<>>
    ELSE IF Len(ws) = 1 THEN ws[1]
    ELSE ws[1] \o <<" ">> \o JoinWords(Tail(ws))

Texts ==
    {left \o JoinWords(ws) \o right :
        left \in Paddings, right \in Paddings,
        ws \in UNION {[1..n -> WordKinds] : n \in 0..MaxWords}}

\* a call of validateInput
Validate(text) ==
    /\ evaluated = <<>>
    /\ evaluated' = <<[fn |-> "validateInput", text |-> text,
                       value |-> validateInput(text)]>>
    /\ UNCHANGED controllerVars
    /\ UNCHANGED clientVars

ApplyValidate == \E text \in Texts : Validate(text)

ApplyAnalytics ==
    \E n \in 0..MaxTotal : \E ans \in AnswerMaps(n) : Summarize(HistoryOf(n), ans)

NextFunctions ==
    \/ ApplyAnalytics
    \/ ApplyFallback
    \/ ApplyValidate

SpecFunctions == Init /\ [][NextFunctions]_vars

(***************************************************************************)
(* Properties.                                                             *)
(***************************************************************************)
AnsweredCount(ans) == Cardinality(DOMAIN ans)

\* the fallback list a call would draw from
IsFallbackOf(q, call) ==
    \E k \in 1..Len(fallbackQuestions(call.projectInput)) :
        q = fallbackQuestions(call.projectInput)[k]

\* C1: in every reachable state the question history holds at most 20
\* questions.
C1_HistoryAtMostTwenty == Len(questions) <= MaxQuestions

\* C2: whenever generateNextQuestion returns null for a call made by start,
\* submitAnswer or skip, the step that handles it appends exactly one
\* fallback question and leaves the session in Questioning.
C2_NullAppendsOneFallback ==
    [][\A i \in 1..Len(inflight) :
          (startResult(i, "null") \/ submitResult(i, "null") \/ skipResult(i, "null"))
              => /\ Len(questions') = Len(inflight[i].questions) + 1
                 /\ SubSeq(questions', 1, Len(inflight[i].questions)) = inflight[i].questions
                 /\ IsFallbackOf(questions'[Len(questions')], inflight[i])
                 /\ page' = "questioning"]_vars

\* C3: from a state in Summarizing, every step other than Start New Project
\* leaves the question history and the answer map as they are.
C3_SummaryFreezesHistory ==
    [][page = "summary" /\ page' # "home"
          => questions' = questions /\ answers' = answers]_vars

C3_Witness ==
    /\ page = "summary"
    /\ Len(questions) >= 2
    /\ AnsweredCount(answers) >= 1

\* C4: finish always ends in Summarizing, and no step takes a session from
\* Summarizing to Questioning: the only way out of Summarizing is the home page.
C4_FinishIsFinal ==
    [][/\ finishQuestioning => page' = "summary"
       /\ page = "questioning" /\ page' # page => page' = "summary"
       /\ page = "summary" => page' \in {"summary", "home"}]_vars

\* a summary that still holds a draft answer was entered by finish: submit and
\* skip clear the draft
C4_Witness ==
    /\ page = "summary"
    /\ currentAnswer = <<"a">>
    /\ Len(questions) >= 2

\* C5: at most one generateNextQuestion call is in flight, and while one is,
\* the page offers neither the start button nor the question card (submit, skip,
\* finish), nor the summary page.
C5_OneCallInFlight ==
    /\ Len(inflight) <= 1
    /\ inflight # <<>> =>
          /\ ~StartButtonEnabled
          /\ ~(page = "questioning" /\ ~isGeneratingQuestion)
          /\ page # "summary"
          /\ isGenerating \/ isGeneratingQuestion

C5_Witness ==
    /\ Len(inflight) = 1
    /\ inflight[1].kind = "submit"
    /\ Len(inflight[1].questions) >= 2

\* C6: every question of the history carries an id equal to its 1-based
\* position.
C6_IdIsPosition ==
    \A i \in 1..Len(questions) : questions[i].id = i

\* C7: every key of the answer map is a position of the question history.
C7_AnswerKeysValid ==
    \A k \in DOMAIN answers : 0 <= k /\ k < Len(questions)

C7_Witness ==
    /\ AnsweredCount(answers) >= 2
    /\ Len(questions) - 1 \in DOMAIN answers

\* C8: a step that records an answer ends in Summarizing with no oracle call
\* when the answered count has reached 20, and otherwise makes exactly one
\* oracle call and stays in Questioning.
C8_SubmitCallsOracleBelowTwenty ==
    [][AnsweredCount(answers') > AnsweredCount(answers)
          => IF AnsweredCount(answers') >= MaxQuestions
             THEN page' = "summary" /\ inflight' = inflight
             ELSE /\ page' = "questioning"
                  /\ Len(inflight') = Len(inflight) + 1
                  /\ inflight'[Len(inflight')].kind = "submit"]_vars

C8_Witness ==
    /\ page = "summary"
    /\ AnsweredCount(answers) = MaxQuestions
    /\ inflight = <<>>

\* C9: when the call made by submitAnswer returns a stop decision, the answer
\* stays recorded, no question is appended and the session is in Summarizing;
\* after start and one submit that leaves 1 question and 1 answer.
C9_StopEndsSession ==
    [][\A i \in 1..Len(inflight) :
          submitResult(i, "stop")
              => /\ page' = "summary"
                 /\ questions' = inflight[i].questions
                 /\ answers' = answers
                 /\ inflight[i].currentQuestionIndex \in DOMAIN answers'
                 /\ Len(inflight[i].questions) = 1
                       => Len(questions') = 1 /\ DOMAIN answers' = {0}]_vars

C9_Witness ==
    /\ page = "summary"
    /\ Len(questions) = 1
    /\ DOMAIN answers = {0}
    /\ currentAnswer = <<>>

\* the answered question/answer pairs of positions 0..n-1, in order
RECURSIVE AnsweredPairs(_, _, _)
AnsweredPairs(qs, ans, n) ==
    IF n = 0
    THEN <<>>
    ELSE IF (n - 1) \in DOMAIN ans
         THEN Append(AnsweredPairs(qs, ans, n - 1),
                     [question |-> qs[n].question, answer |-> ans[n - 1]])
         ELSE AnsweredPairs(qs, ans, n - 1)

C11_HistoryAppendOnly ==
    [][~(page = "summary" /\ page' = "home")
          => \/ questions' = questions
             \/ /\ Len(questions') = Len(questions) + 1
                /\ SubSeq(questions', 1, Len(questions)) = questions]_vars

C11_Witness ==
    /\ page = "questioning"
    /\ Len(questions) >= 3
    /\ FallbackCount(questions) = 1

\* C12: a start whose description fails validation stays in Collecting with an
\* error, leaves the persisted daily record alone, makes no oracle call and
\* leaves the history empty.
C12_InvalidStartRejected ==
    [][handleStartProject /\ ~validateInput(projectInput).valid
          => /\ page' = "home"
             /\ inputError' # NoError
             /\ projectCount' = projectCount
             /\ inflight' = inflight
             /\ ~isGenerating'
             /\ questions' = <<>>]_vars

C12_Witness ==
    /\ page = "home"
    /\ inputError = ErrTooShort
    /\ projectInput = DescShort
    /\ questions = <<>>

\* C16: when the call made by start returns a stop decision, the session stays
\* in Collecting with an error message, the history stays empty and the
\* position pointer keeps its value.
C16_StartStopStaysCollecting ==
    [][\A i \in 1..Len(inflight) :
          startResult(i, "stop")
              => /\ page' = "home"
                 /\ inputError' # NoError
                 /\ questions' = <<>>
                 /\ currentQuestionIndex' = currentQuestionIndex
                 /\ ~isGenerating']_vars

C16_Witness ==
    /\ page = "home"
    /\ inputError = ErrNoQuestions
    /\ questions = <<>>
    /\ inflight = <<>>

\* a text of whitespace only (or empty)
IsBlank(text) == \A k \in 1..Len(text) : text[k] \in Whitespace

C17_RejectionTextSurfaced ==
    [][\A i \in 1..Len(inflight), outcome \in {"task", "gibberish"} :
          startResult(i, outcome)
              => inputError' = ReplyData(outcome).validationMessage]_vars

\* a start that has passed validation: the call of checkRateLimit
ConsumeStep == handleStartProject /\ validateInput(projectInput).valid

CallMade ==
    /\ Len(inflight') = Len(inflight) + 1
    /\ inflight'[Len(inflight')].kind = "start"
    /\ isGenerating'
    /\ inputError' = NoError

\* C13: when the limiter denies a start, the session stays in Collecting with
\* an error, no oracle call is made, the history stays empty and the persisted
\* record is not changed.
C13_DeniedStartChangesNothing ==
    [][(/\ ConsumeStep
        /\ projectCount.kind = "record"
        /\ projectCount.date = today
        /\ projectCount.count >= DailyCap)
          => /\ page' = "home"
             /\ inputError' = ErrLimit
             /\ inflight' = inflight
             /\ ~isGenerating'
             /\ questions' = <<>>
             /\ projectCount' = projectCount]_vars

C13_Witness ==
    /\ page = "home"
    /\ inputError = ErrLimit
    /\ projectCount = Stored(today, DailyCap)
    /\ inflight = <<>>

C15_BadRecordTreatedAsFresh ==
    (/\ StartButtonEnabled
     /\ validateInput(projectInput).valid
     /\ projectCount.kind \in {"absent", "corrupted"})
        => ENABLED (/\ handleStartProject
                    /\ projectCount' = Stored(today, 1)
                    /\ inputError' = NoError
                    /\ isGenerating'
                    /\ Len(inflight') = Len(inflight) + 1)

\* C20: a generateNextQuestion call made with no API key, or less than
\* MinSpacing after the last external invocation, makes no external
\* invocation, returns null and leaves 'lastApiCall' as it was; and any two
\* external invocations are at least MinSpacing apart.
C20_ClientSpacing ==
    [][/\ \A previousQA \in ClientHistories :
             (/\ clientCall(previousQA)
              /\ \/ ~apiKey
                 \/ /\ apiCalls # <<>>
                    /\ now - apiCalls[Len(apiCalls)].at < MinSpacing)
                 => /\ apiCalls' = apiCalls
                    /\ returned' = <<[invoked |-> FALSE, result |-> NullResult]>>
                    /\ lastApiCall' = lastApiCall
       /\ \A i, j \in 1..Len(apiCalls') :
             i < j => apiCalls'[j].at - apiCalls'[i].at >= MinSpacing]_vars

\* a call refused for coming too soon after two properly spaced invocations
C20_Witness ==
    /\ apiKey
    /\ Len(apiCalls) = 2
    /\ apiCalls[2].at - apiCalls[1].at = MinSpacing
    /\ now - apiCalls[2].at = MinSpacing - 1
    /\ returned = <<[invoked |-> FALSE, result |-> NullResult]>>
    /\ lastApiCall = apiCalls[2].at

\* the first "{" of a text and the last "}" of a text
FirstOpen(text) ==
    CHOOSE i \in 1..Len(text) :
        text[i] = "{" /\ \A k \in 1..(i - 1) : text[k] # "{"
LastClose(text) ==
    CHOOSE j \in 1..Len(text) :
        text[j] = "}" /\ \A k \in (j + 1)..Len(text) : text[k] # "}"

HasBracePair(text) ==
    \E i, j \in 1..Len(text) : i < j /\ text[i] = "{" /\ text[j] = "}"

\* the invocation threw, or its reply has no brace-delimited substring, or
\* the substring from the first "{" to the last "}" does not parse
Unusable(response) ==
    \/ response.threw
    \/ ~HasBracePair(response.text)
    \/ ~Parses(SubSeq(response.text, FirstOpen(response.text), LastClose(response.text)))

StopDecision == [isNull |-> FALSE, shouldContinue |-> FALSE, question |-> EmptyQuestion]

\* The client's half of C19: whatever call is pending, an unusable outcome
\* of its external invocation makes generateNextQuestion return null, and a
\* parsed reply whose shouldContinue is false makes it return a stop decision.
UnusableOutcomeYieldsNull ==
    \A k \in PendingCalls : \A response \in Responses :
        /\ Unusable(response)
               => generateNextQuestion(apiCalls[k].previousQA, replyOutcome(response))
                      = NullResult
        /\ (/\ ~Unusable(response)
            /\ response.text[FirstOpen(response.text) + 1] \in (ReplyBodies \ {"continue"}) \cup {"}"})
               => generateNextQuestion(apiCalls[k].previousQA, replyOutcome(response))
                      = StopDecision

\* C19: generateNextQuestion returns null for every unusable outcome and a
\* stop decision for a parsed reply with shouldContinue false, and the step
\* of the controller that handles a stop decision differs from the step
\* that handles null.  Spec represents every unusable outcome by "null".
C19_StopHandledUnlikeNull ==
    [][\A i \in 1..Len(inflight) :
          /\ generateNextQuestion(inflight[i].previousQA, "null") = NullResult
          /\ generateNextQuestion(inflight[i].previousQA, "stop") = StopDecision
          /\ startResult(i, "null") => ~startResult(i, "stop")
          /\ submitResult(i, "null") => ~submitResult(i, "stop")
          /\ skipResult(i, "null") => ~skipResult(i, "stop")]_vars

\* C21: calculateAnalytics returns completeness 0 for an empty history and
\* otherwise 100 * answeredCount / totalQuestions rounded to the nearest
\* integer (a half rounded up); scopeRiskScore is High below 60, Medium from
\* 60 to 79 and Low from 80; no questions give 0 and High, 10 answered of 10
\* give 100 and Low.
C21_CompletenessAndRisk ==
    \A k \in 1..Len(evaluated) :
        evaluated[k].fn = "calculateAnalytics" =>
            LET a == Cardinality(DOMAIN evaluated[k].answers)
                t == Len(evaluated[k].questions)
                c == evaluated[k].value.completeness
                r == evaluated[k].value.scopeRiskScore
            IN  /\ t = 0 => c = 0 /\ r = "High"
                /\ t > 0 => /\ 2 * c * t <= 200 * a + t
                            /\ 200 * a + t < 2 * (c + 1) * t
                /\ c < 60 => r = "High"
                /\ (60 <= c /\ c < 80) => r = "Medium"
                /\ c >= 80 => r = "Low"
                /\ (t = 10 /\ a = 10) => c = 100 /\ r = "Low"

\* two of three answered: 66.67 rounds to 67, Medium
C21_Witness ==
    /\ evaluated # <<>>
    /\ evaluated[1].fn = "calculateAnalytics"
    /\ Len(evaluated[1].questions) = 3
    /\ Cardinality(DOMAIN evaluated[1].answers) = 2
    /\ evaluated[1].value.completeness = 67
    /\ evaluated[1].value.scopeRiskScore = "Medium"

\* C22: for every question count >= 0, getFallbackQuestion returns the entry
\* of the ten fallback questions at index min(count, 9): the first for count
\* 0, the last for every count of 9 or more, and always an entry of the list.
C22_FallbackClamped ==
    \A k \in 1..Len(evaluated) :
        evaluated[k].fn = "getFallbackQuestion" =>
            LET list == fallbackQuestions(evaluated[k].projectDesc)
                n == evaluated[k].questionCount
            IN  /\ Len(list) = FallbackListLen
                /\ n = 0 => evaluated[k].value = list[1]
                /\ n < FallbackListLen - 1 => evaluated[k].value = list[n + 1]
                /\ n >= FallbackListLen - 1 => evaluated[k].value = list[FallbackListLen]
                /\ \E i \in 1..FallbackListLen : evaluated[k].value = list[i]

\* a count far past the end of the list gives the last fallback question
C22_Witness ==
    /\ evaluated # <<>>
    /\ evaluated[1].fn = "getFallbackQuestion"
    /\ evaluated[1].questionCount = FarCount
    /\ evaluated[1].value.id = FallbackListLen
    /\ evaluated[1].value.category = "Stakeholders"

\* the length of a text between its first and its last non-whitespace character
TrimmedLength(text) ==
    LET solid == {i \in 1..Len(text) : text[i] \notin Whitespace}
    IN  IF solid = {} THEN 0
        ELSE (CHOOSE j \in solid : \A i \in solid : i <= j)
             - (CHOOSE j \in solid : \A i \in solid : j <= i) + 1

\* the whitespace-separated tokens of a text, as pairs of positions
Tokens(text) ==
    {r \in (1..Len(text)) \X (1..Len(text)) :
        /\ r[1] <= r[2]
        /\ \A i \in r[1]..r[2] : text[i] \notin Whitespace
        /\ r[1] = 1 \/ text[r[1] - 1] \in Whitespace
        /\ r[2] = Len(text) \/ text[r[2] + 1] \in Whitespace}

\* the tokens with at least two letters, one of them a vowel
MeaningfulTokens(text) ==
    {r \in Tokens(text) :
        /\ Cardinality({i \in r[1]..r[2] : text[i] \in Letters}) >= 2
        /\ \E i \in r[1]..r[2] : text[i] \in Vowels}

\* C23: validateInput returns invalid for a text whose trimmed length is
\* below 10 and for a text with fewer than 3 meaningful tokens (a token is
\* meaningful iff its letters number at least 2 and include a vowel), and
\* valid for every other text.
C23_ValidateRules ==
    \A k \in 1..Len(evaluated) :
        evaluated[k].fn = "validateInput" =>
            (evaluated[k].value.valid
                <=> /\ TrimmedLength(evaluated[k].text) >= 10
                    /\ Cardinality(MeaningfulTokens(evaluated[k].text)) >= 3)

\* a text of ten characters with three meaningful tokens is valid
C23_Witness ==
    /\ evaluated # <<>>
    /\ evaluated[1].fn = "validateInput"
    /\ TrimmedLength(evaluated[1].text) = 10
    /\ Cardinality(MeaningfulTokens(evaluated[1].text)) = 3
    /\ evaluated[1].value.valid

\* C24: for a reply holding more than one brace-delimited object,
\* generateNextQuestion returns the decision encoded by the first object.
C24_FirstObjectDecides ==
    [][\A k \in PendingCalls : \A text \in MultiObjectReplies :
          clientReply(k, [threw |-> FALSE, text |-> text])
              => returned'[1].result
                     = generateNextQuestion(apiCalls[k].previousQA, text[2])]_vars

\* C25: in every state on the questioning page with no generateNextQuestion
\* call pending, currentQuestionIndex is the position of the last question
\* of the history, and so a valid index.
C25_PointerAtLastQuestion ==
    (page = "questioning" /\ inflight = <<>>)
        => /\ currentQuestionIndex = Len(questions) - 1
           /\ currentQuestionIndex >= 0

\* the third question is shown after two answers
C25_Witness ==
    /\ page = "questioning"
    /\ inflight = <<>>
    /\ Len(questions) = 3
    /\ currentQuestionIndex = 2
    /\ DOMAIN answers = {0, 1}

\* C26: every step other than Start New Project keeps each recorded answer
\* at its position with its text, so a position is answered at most once and
\* no submit, skip or finish overwrites or removes an answer; and every
\* recorded answer has a non-whitespace character.
C26_AnswersOnlyGrow ==
    [][/\ ~startNewProject
          => \A k \in DOMAIN answers : k \in DOMAIN answers' /\ answers'[k] = answers[k]
       /\ (handleAnswerSubmit /\ ~IsBlank(currentAnswer))
          => currentQuestionIndex \notin DOMAIN answers
       /\ \A k \in DOMAIN answers' : ~IsBlank(answers'[k])]_vars

\* two answers recorded, then a skip, then a third answer
C26_Witness ==
    /\ page = "questioning"
    /\ DOMAIN answers = {0, 1, 3}
    /\ \A k \in DOMAIN answers : answers[k] = <<"a">>

\* C27: whenever a start puts the session on the questioning page, the
\* draft answer is empty and the answer map is empty.
C27_NewSessionStartsClean ==
    [][\A i \in 1..Len(inflight) : \A outcome \in Outcomes :
          (startResult(i, outcome) /\ page' = "questioning")
              => currentAnswer' = <<>> /\ answers' = <<>>]_vars

\* Why the run of skips in SpecSkipping does not end where the model stops
\* following it: a skip made with fewer than MaxQuestions answers recorded
\* leaves the page and the answers as they are and calls the oracle, and the
\* continue decision that answers it leaves the answers as they are and
\* shows the next question, where skip is again offered.
SkipMakesNoProgress ==
    [][/\ (skipQuestion /\ AnsweredCount(answers) < MaxQuestions)
              => /\ page' = page
                 /\ answers' = answers
                 /\ Len(inflight') = Len(inflight) + 1
       /\ \A i \in 1..Len(inflight) :
              skipResult(i, "continue")
                  => /\ page' = "questioning"
                     /\ answers' = answers
                     /\ Len(questions') = Len(inflight[i].questions) + 1
                     /\ QuestionCardShown']_vars

\* C28: a session of submits and skips, without a finish, reaches the
\* summary page whatever the oracle does, an oracle that always continues
\* included.
C28_SessionReachesSummary == (page = "questioning") ~> (page = "summary")

\* the session can be acted on: no call pending, both pending flags clear,
\* and the page is home, summary, or questioning with a question shown
Settled ==
    /\ inflight = <<>>
    /\ ~isGenerating
    /\ ~isGeneratingQuestion
    /\ \/ page = "home"
       \/ page = "summary"
       \/ page = "questioning" /\ currentQuestionIndex + 1 \in DOMAIN questions

\* C29: every start, submit or skip that begins a generateNextQuestion call
\* is followed by a state with the call completed, the pending flags clear
\* and the session on the home page, on the summary page, or on the
\* questioning page with a question to act on.
C29_CallsComplete == (inflight # <<>>) ~> Settled

\* a submit's call returned null and the fallback question is shown
C29_Witness ==
    /\ Settled
    /\ page = "questioning"
    /\ Len(questions) = 3
    /\ questions[3] = getFallbackQuestion(projectInput, 2)
    /\ DOMAIN answers = {0, 1}

\* C30: a start whose description passes validation and which the limiter
\* allows raises today's stored count by exactly one; a start that fails
\* validation and every other step (the reply to a start, a rejection by
\* the oracle included, submit, skip, finish, reset) leave the stored record
\* as it is.
C30_OneUnitPerAllowedStart ==
    [][/\ (/\ handleStartProject
           /\ validateInput(projectInput).valid
           /\ StartsToday < DailyCap)
              => /\ projectCount'.kind = "record"
                 /\ projectCount'.date = today
                 /\ projectCount'.count = StartsToday + 1
       /\ (handleStartProject /\ ~validateInput(projectInput).valid)
              => projectCount' = projectCount
       /\ ~handleStartProject => projectCount' = projectCount]_vars

\* the oracle rejected the description and the start still cost one unit
C30_Witness ==
    /\ page = "home"
    /\ inflight = <<>>
    /\ inputError = ErrNoQuestions
    /\ questions = <<>>
    /\ projectCount = Stored(today, 1)

====
